---- MODULE Spec2Model ----
(***************************************************************************)
(* Model of uds/reports/stats/pools_usage_summary.py:                      *)
(*   PoolsUsageSummary.processed_data  (grouping / aggregation pass)       *)
(*   PoolsUsageSummary.generate        (PDF payload)                       *)
(*   PoolsUsageSummaryCSV.generate     (CSV rows)                          *)
(*                                                                         *)
(* A Python dict is modelled as an insertion-ordered association list:     *)
(* a sequence of [key, val] entries with pairwise distinct keys.           *)
(* A dynamically typed value that changes type (the 'users' slot: a set    *)
(* during accumulation, an int after line 93) carries its runtime type as  *)
(* the record's field name: [set |-> S] or [int |-> n].                    *)
(***************************************************************************)
EXTENDS Integers, Sequences, FiniteSets

\* ---- bounds of the model -------------------------------------------------
MaxLen == 3
MaxTime == 1

\* ---- the input domain: what super().get_data() can yield ------------------
PoolIds == {"p1", "p2"}
PoolNames == {"Pool A", "Pool B"}
UserNames == {"u1", "u2"}
Times == 0..MaxTime

UsageRecord == [pool : PoolIds, pool_name : PoolNames, name : UserNames, time : Times]

\* every sequence of at most MaxLen records
Inputs == UNION {[1..n -> UsageRecord] : n \in 0..MaxLen}

VARIABLES
    orig,          \* the rows returned by super().get_data()
    pos,           \* number of rows the loop of line 72 has consumed
    pools,         \* dict uuid -> {name, time, count, users}
    total_time,
    total_count,
    unique_users,
    result,        \* the tuple returned at line 95 (<<>> before the return)
    dct,           \* PDF: the eagerly evaluated entries of the template dictionary
    data,          \* PDF: the rows the 'data' generator has produced
    output,        \* CSV: the rows written
    pc

vars == <<orig, pos, pools, total_time, total_count, unique_users,
          result, dct, data, output, pc>>

\* ---- dict helpers ----------------------------------------------------------
Keys(d) == {d[j].key : j \in 1..Len(d)}

IndexOf(d, k) == CHOOSE j \in 1..Len(d) : d[j].key = k

Values(d) == [j \in 1..Len(d) |-> d[j].val]

\* ---- processed_data, loop body --------------------------------------------
\* variant: the name is assigned on every record, not only on first sight
EnsurePool_Overwrite(d, v) ==
    IF v.pool \notin Keys(d)
    THEN Append(d, [key |-> v.pool,
                    val |-> [name |-> v.pool_name, time |-> 0, count |-> 0,
                             users |-> [set |-> {}]]])
    ELSE [d EXCEPT ![IndexOf(d, v.pool)].val.name = v.pool_name]

\* variant: a new aggregate is put in front of the older ones
EnsurePool_Prepend(d, v) ==
    IF v.pool \notin Keys(d)
    THEN <<[key |-> v.pool,
            val |-> [name |-> v.pool_name, time |-> 0, count |-> 0,
                     users |-> [set |-> {}]]]>> \o d
    ELSE d

\* lines 74-80: create the aggregate on first sight of the uuid
EnsurePool(d, v) ==
    IF v.pool \notin Keys(d)
    THEN Append(d, [key |-> v.pool,
                    val |-> [name |-> v.pool_name, time |-> 0, count |-> 0,
                             users |-> [set |-> {}]]])
    ELSE d

\* variant: `=` for `+=` on the pool's time
AddToPool_AssignTime(d, v) ==
    [d EXCEPT ![IndexOf(d, v.pool)].val =
        [@ EXCEPT !.time = v.time,
                  !.count = @ + 1,
                  !.users = [set |-> @.set \cup {v.name}]]]

\* variant: line 82 missing, the pool's count is never incremented
AddToPool_NoCount(d, v) ==
    [d EXCEPT ![IndexOf(d, v.pool)].val =
        [@ EXCEPT !.time = @ + v.time,
                  !.users = [set |-> @.set \cup {v.name}]]]

\* variant: the record is accumulated into every aggregate
AddToPool_All(d, v) ==
    [j \in 1..Len(d) |->
        [d[j] EXCEPT !.val =
            [@ EXCEPT !.time = @ + v.time,
                      !.count = @ + 1,
                      !.users = [set |-> @.set \cup {v.name}]]]]

\* lines 81-84: pools[uuid]['time'] += ..., ['count'] += 1, ['users'].add(...)
AddToPool(d, v) ==
    [d EXCEPT ![IndexOf(d, v.pool)].val =
        [@ EXCEPT !.time = @ + v.time,
                  !.count = @ + 1,
                  !.users = [set |-> @.set \cup {v.name}]]]

\* line 85: unique_users.add(v['name'])
AddUser(s, v) == s \cup {v.name}

\* variant: the global time is counted per access, not per second
AddTotals_TimePlusOne(t, v) == [time |-> t.time + 1, count |-> t.count + 1]

\* variant: the global count is set, not incremented
AddTotals_CountIsOne(t, v) == [time |-> t.time + v.time, count |-> 1]

\* lines 87-88: total_time += v['time']; total_count += 1
AddTotals(t, v) == [time |-> t.time + v.time, count |-> t.count + 1]

\* variant: len() of the aggregate's accesses instead of its user set
CollapseUsers_Count(pn) == [pn EXCEPT !.users = [int |-> pn.count]]

\* line 93: pn['users'] = len(pn['users'])
CollapseUsers(pn) == [pn EXCEPT !.users = [int |-> Cardinality(@.set)]]

\* variant: no `or 1`
OrOne_NoFloor(n) == n

\* line 95: the `or` of Python on an int
OrOne(n) == IF n = 0 THEN 1 ELSE n

\* line 95: return pools.values(), total_time, total_count or 1, len(unique_users)
ReturnValue(d, tt, tc, uu) == <<Values(d), tt, OrOne(tc), Cardinality(uu)>>

\* ---- renderers --------------------------------------------------------------
\* str(datetime.timedelta(seconds=n)), n >= 0: "[D day[s], ]H:MM:SS",
\* kept as its numeric components <<days, hours, minutes, seconds>>
timedelta_str(n) ==
    <<n \div 86400, (n % 86400) \div 3600, (n % 3600) \div 60, n % 60>>

\* lines 109-117: one element of the 'data' generator
PDFDataRow(p) ==
    [name |-> p.name,
     time |-> timedelta_str(p.time),
     count |-> p.count,
     users |-> p.users.int,
     mean |-> timedelta_str(p.time \div p.count)]

\* lines 120-123: the eagerly evaluated totals of the template dictionary
PDFTotals(r) ==
    [time |-> timedelta_str(r[2]),
     count |-> r[3],
     users |-> r[4],
     mean |-> timedelta_str(r[2] \div r[3])]

\* lines 156-162
CSVHeaderRow ==
    <<"Pool", "Total Time (seconds)", "Total Accesses", "Unique users",
      "Mean time (seconds)">>

\* line 167
CSVDataRow(v) == <<v.name, v.time, v.count, v.users.int, v.time \div v.count>>

\* lines 171-177
CSVTotalsRow(r) == <<"Total", r[2], r[3], r[4], r[2] \div r[3]>>

\* the values a renderer's loop handles before a zero count stops it
BeforeZeroCount(vs) ==
    LET Z == {j \in 1..Len(vs) : vs[j].count = 0}
    IN IF Z = {} THEN vs
       ELSE SubSeq(vs, 1, (CHOOSE j \in Z : \A i \in Z : j <= i) - 1)

\* ---- initial state: processed_data has executed lines 64-70 -----------------
Init ==
    /\ orig \in Inputs
    /\ pos = 0
    /\ pools = <<>>
    /\ total_time = 0
    /\ total_count = 0
    /\ unique_users = {}
    /\ result = <<>>
    /\ dct = <<>>
    /\ data = <<>>
    /\ output = <<>>
    /\ pc = "loop"

\* lines 72-88: one iteration of `for v in orig`
LoopStep ==
    /\ pc = "loop"
    /\ pos < Len(orig)
    /\ LET v == orig[pos + 1]
           t == AddTotals([time |-> total_time, count |-> total_count], v)
       IN /\ pools' = AddToPool(EnsurePool(pools, v), v)
          /\ unique_users' = AddUser(unique_users, v)
          /\ total_time' = t.time
          /\ total_count' = t.count
    /\ pos' = pos + 1
    /\ UNCHANGED <<orig, result, dct, data, output, pc>>

\* lines 90-93, once `for v in orig` is exhausted: the whole loop
\* `for _, pn in pools.items()`
Finalize ==
    /\ pc = "loop"
    /\ pos = Len(orig)
    /\ pools' = [j \in 1..Len(pools) |->
                    [pools[j] EXCEPT !.val = CollapseUsers(@)]]
    /\ pc' = "return"
    /\ UNCHANGED <<orig, pos, total_time, total_count, unique_users,
                   result, dct, data, output>>

\* line 95
Return ==
    /\ pc = "return"
    /\ result' = ReturnValue(pools, total_time, total_count, unique_users)
    /\ pc' = "returned"
    /\ UNCHANGED <<orig, pos, pools, total_time, total_count, unique_users,
                   dct, data, output>>

\* PoolsUsageSummary.generate, lines 98-135, processed_data having returned to
\* it: the dictionary literal evaluates the totals (the 'data' generator is
\* only created), then the template consumes the generator
PDFGenerate ==
    /\ pc = "returned"
    /\ IF result[3] = 0
       THEN /\ pc' = "ZeroDivisionError"
            /\ UNCHANGED <<dct, data>>
       ELSE /\ dct' = PDFTotals(result)
            /\ data' = [j \in 1..Len(BeforeZeroCount(result[1])) |->
                           PDFDataRow(result[1][j])]
            /\ pc' = IF BeforeZeroCount(result[1]) = result[1]
                     THEN "pdf_done" ELSE "ZeroDivisionError"
    /\ UNCHANGED <<orig, pos, pools, total_time, total_count, unique_users,
                   result, output>>

\* PoolsUsageSummaryCSV.generate, lines 153-180, processed_data having returned
\* to it: header row, `for v in report_data`, totals row
CSVGenerate ==
    /\ pc = "returned"
    /\ LET rows == <<CSVHeaderRow>> \o
                   [j \in 1..Len(BeforeZeroCount(result[1])) |->
                       CSVDataRow(result[1][j])]
       IN IF BeforeZeroCount(result[1]) # result[1]
          THEN output' = rows /\ pc' = "ZeroDivisionError"
          ELSE IF result[3] = 0
          THEN output' = rows /\ pc' = "ZeroDivisionError"
          ELSE output' = Append(rows, CSVTotalsRow(result)) /\ pc' = "csv_done"
    /\ UNCHANGED <<orig, pos, pools, total_time, total_count, unique_users,
                   result, dct, data>>

Next ==
    \/ LoopStep
    \/ Finalize
    \/ Return
    \/ PDFGenerate
    \/ CSVGenerate

Spec == Init /\ [][Next]_vars

TypeOK ==
    /\ pos \in 0..Len(orig)
    /\ total_time \in Nat
    /\ total_count \in Nat
    /\ unique_users \subseteq UserNames
    /\ pc \in {"loop", "return", "returned", "pdf_done", "csv_done",
               "ZeroDivisionError"}

\* ---- reference quantities, computed from the input alone --------------------
Returned == pc \in {"returned", "pdf_done", "csv_done", "ZeroDivisionError"}

\* indices, among the first n input records, of the records of pool k
RecordsOf(k, n) == {i \in 1..n : orig[i].pool = k}

\* sum of the time of the input records whose index is in S and at most n
RECURSIVE SumTimesUpTo(_, _)
SumTimesUpTo(S, n) ==
    IF n = 0 THEN 0
    ELSE (IF n \in S THEN orig[n].time ELSE 0) + SumTimesUpTo(S, n - 1)

SumTimes(S) == SumTimesUpTo(S, Len(orig))

UsersOf(S) == {orig[i].name : i \in S}

Min(S) == CHOOSE x \in S : \A y \in S : x <= y

RECURSIVE SumField(_, _)
SumField(vs, f) ==
    IF vs = <<>> THEN 0 ELSE Head(vs)[f] + SumField(Tail(vs), f)

RECURSIVE SumUsers(_)
SumUsers(vs) ==
    IF vs = <<>> THEN 0 ELSE Head(vs).users.int + SumUsers(Tail(vs))

\* the distinct pool ids of s, in order of first occurrence
RECURSIVE FirstSeen(_)
FirstSeen(s) ==
    IF s = <<>> THEN <<>>
    ELSE LET r == FirstSeen(SubSeq(s, 1, Len(s) - 1))
             k == s[Len(s)].pool
         IN IF \E j \in 1..Len(r) : r[j] = k THEN r ELSE Append(r, k)

\* the CSV data row expected for pool k, from the input alone
ExpectedRow(k) ==
    LET S == RecordsOf(k, Len(orig))
    IN <<orig[Min(S)].pool_name, SumTimes(S), Cardinality(S),
         Cardinality(UsersOf(S)), SumTimes(S) \div Cardinality(S)>>

\* ---- C1 ---------------------------------------------------------------------
\* C1: for a non-empty input, the returned total_time is the sum of the time
\* of all records and the returned total_count is the number of records.
C1_Totals ==
    (Returned /\ Len(orig) > 0) =>
        /\ result[2] = SumTimes(1..Len(orig))
        /\ result[3] = Len(orig)

C1_Witness ==
    /\ Returned
    /\ Len(orig) >= 2
    /\ result[2] >= 2
    /\ result[3] = Len(orig)

\* ---- C2 ---------------------------------------------------------------------
\* C2 as stated: for every input, the empty one included, the sum of the
\* per-pool count of the returned pools equals the returned total_count.
C2_Original == Returned => SumField(result[1], "count") = result[3]

\* C2 amended: for a non-empty input the sum of the per-pool count equals the
\* returned total_count; for the empty input the sum is 0 and the returned
\* total_count is 1.
C2_CountSum ==
    Returned =>
        /\ Len(orig) > 0 => SumField(result[1], "count") = result[3]
        /\ Len(orig) = 0 => SumField(result[1], "count") = 0 /\ result[3] = 1

C2_Witness ==
    /\ Returned
    /\ Len(result[1]) = 2
    /\ result[3] >= 3

\* ---- C3 ---------------------------------------------------------------------
\* C3: after every record processed, and in the returned result, the sum of
\* the per-pool time equals the global total_time.
C3_TimeSum ==
    /\ SumField(Values(pools), "time") = total_time
    /\ Returned => SumField(result[1], "time") = result[2]

C3_Witness ==
    /\ pc = "loop"
    /\ pos >= 2
    /\ pos < Len(orig)
    /\ Len(pools) = 2
    /\ \A j \in 1..2 : pools[j].val.time > 0

\* ---- C4 ---------------------------------------------------------------------
\* C4: on the empty input processed_data returns no pool, total_time 0,
\* total_count 1 and unique user count 0.
C4_Empty ==
    (Returned /\ Len(orig) = 0) =>
        /\ Len(result[1]) = 0
        /\ result[2] = 0
        /\ result[3] = 1
        /\ result[4] = 0

C4_Witness == pc = "returned" /\ Len(orig) = 0

\* ---- C5 ---------------------------------------------------------------------
\* C5: in the result every pool's unique-user count is at most its count,
\* and the global unique-user count is at most the returned total_count.
C5_UsersLeCount ==
    Returned =>
        /\ \A j \in 1..Len(result[1]) :
               result[1][j].users.int <= result[1][j].count
        /\ result[4] <= result[3]

C5_Witness ==
    /\ Returned
    /\ \E j \in 1..Len(result[1]) : result[1][j].users.int < result[1][j].count
    /\ \E j \in 1..Len(result[1]) : result[1][j].users.int = result[1][j].count
    /\ result[4] < result[3]

\* ---- C6 ---------------------------------------------------------------------
\* C6: at every point of the run a pool aggregate's name is the pool_name of
\* the first record of its pool id, whatever pool_name later records carry.
C6_FirstName ==
    \A j \in 1..Len(pools) :
        LET S == RecordsOf(pools[j].key, pos)
        IN pools[j].val.name = orig[Min(S)].pool_name

C6_Witness ==
    \E j \in 1..Len(pools) :
        \E i \in RecordsOf(pools[j].key, pos) :
            orig[i].pool_name # pools[j].val.name

\* ---- C7 ---------------------------------------------------------------------
\* C7: the returned pools are in order of first occurrence of their pool id;
\* the CSV is the header row, then one row per pool in that order, then the
\* totals row, which is last.
C7_Order ==
    /\ Returned =>
          /\ [j \in 1..Len(pools) |-> pools[j].key] = FirstSeen(orig)
          /\ result[1] = Values(pools)
    /\ pc = "csv_done" =>
          LET fs == FirstSeen(orig)
          IN /\ Len(output) = Len(fs) + 2
             /\ output[1] = CSVHeaderRow
             /\ \A j \in 1..Len(fs) : output[j + 1] = ExpectedRow(fs[j])
             /\ output[Len(output)] = CSVTotalsRow(result)

\* first-seen order differs from the order by id, by name and by time
C7_Witness ==
    /\ pc = "csv_done"
    /\ Len(output) = 4
    /\ pools[1].key = "p2"
    /\ output[2][1] = "Pool B"
    /\ output[3][1] = "Pool A"
    /\ output[2][2] > output[3][2]

\* ---- C8 ---------------------------------------------------------------------
\* C8: no division of the PDF or CSV generate has a zero divisor: every
\* returned pool has count >= 1 and the returned total_count is >= 1.
C8_NoZeroDivisor ==
    /\ pc # "ZeroDivisionError"
    /\ Returned =>
          /\ \A j \in 1..Len(result[1]) : result[1][j].count >= 1
          /\ result[3] >= 1

C8_Witness == pc \in {"pdf_done", "csv_done"} /\ Len(orig) = 0

\* ---- C9 ---------------------------------------------------------------------
\* C9: there is exactly one aggregate per pool id of the records processed,
\* its count and time are the number and the time sum of those records, and
\* processing a record leaves the aggregates of the other pool ids unchanged.
C9_Grouping ==
    /\ Keys(pools) = {orig[i].pool : i \in 1..pos}
    /\ Len(pools) = Cardinality(Keys(pools))
    /\ \A j \in 1..Len(pools) :
           LET S == RecordsOf(pools[j].key, pos)
           IN /\ pools[j].val.count = Cardinality(S)
              /\ pools[j].val.time = SumTimes(S)

C9_Frame ==
    [][pos' = pos + 1 =>
          \A k \in Keys(pools) \ {orig[pos + 1].pool} :
              /\ k \in Keys(pools')
              /\ pools'[IndexOf(pools', k)].val = pools[IndexOf(pools, k)].val]_vars

C9_OnePoolPerRecord == []C9_Grouping /\ C9_Frame

C9_Witness ==
    /\ Returned
    /\ Len(result[1]) = 2
    /\ result[1][1].count = 2
    /\ result[1][1].time = 2
    /\ result[1][2].count = 1

\* ---- C10 --------------------------------------------------------------------
\* C10: after finalization each pool's users is the number of distinct user
\* names among its records, the global count is the number of distinct user
\* names of all records, at most the sum and at least the largest of the
\* per-pool counts.
C10_UniqueUsers ==
    Returned =>
        /\ \A j \in 1..Len(result[1]) :
               /\ result[1][j].users.int =
                      Cardinality(UsersOf(RecordsOf(pools[j].key, Len(orig))))
               /\ result[1][j].users.int <= result[4]
        /\ result[4] = Cardinality(UsersOf(1..Len(orig)))
        /\ result[4] <= SumUsers(result[1])

\* a user seen in both pools, counted once globally
C10_Witness ==
    /\ Returned
    /\ Len(result[1]) = 2
    /\ result[4] < SumUsers(result[1])
    /\ \E j \in 1..2 : result[1][j].users.int < result[1][j].count
====
